---- MODULE Spec2Model ----
(***************************************************************************)
(* Model of jules-scratch/verification/verify_migration.py: a linear       *)
(* Playwright script that opens a browser, visits /login, /dashboard and   *)
(* /landing, asserts a heading on each, takes two screenshots, prints      *)
(* three confirmation messages and closes the browser.  The script runs    *)
(* inside "with sync_playwright() as playwright", whose exit tears the     *)
(* automation driver down whether run() returned or raised.                *)
(*                                                                         *)
(* The environment (what the application under test serves on each route)  *)
(* is chosen in Init; every browser-library call may return or raise.      *)
(***************************************************************************)
EXTENDS Integers, Sequences, FiniteSets, TLC

VARIABLES
    pc,          \* position of the script: the source line about to run
    exc,         \* TRUE once an exception is propagating out of run()
    playwright,  \* state of the sync_playwright() context
    browser,     \* state of the browser instance
    page,        \* the page handle: NoPage or [url, heading]
    files,       \* screenshot files present on disk
    stdout,      \* console output, one entry per print
    trace,       \* every call run() has made so far, in order
    outcome,     \* result of the process
    server       \* what the application under test serves on each route

vars == <<pc, exc, playwright, browser, page, files, stdout, trace, outcome, server>>

----------------------------------------------------------------------------
(* Literals of the script *)

LoginURL     == "http://localhost:3000/login"
DashboardURL == "http://localhost:3000/dashboard"
LandingURL   == "http://localhost:3000/landing"
Routes       == {LoginURL, DashboardURL, LandingURL}

LoginHeading   == "Welcome to WealthLog"
LandingHeading == "Dashboard"

LoginShot   == "jules-scratch/verification/login-page.png"
LandingShot == "jules-scratch/verification/dashboard-page.png"

LoginMsg     == "Screenshot of login page taken."
DashboardMsg == "Redirected to login page from dashboard as expected."
LandingMsg   == "Screenshot of dashboard page taken."

(* What a route can do when visited: fail to load, or end up (after any     *)
(* redirect) showing one of the headings or none of them.                   *)
NavError   == "ERR_NAVIGATION"
NoHeading  == "no heading"
Responses  == {NavError, LoginHeading, LandingHeading, NoHeading}

NoPage == [url |-> "about:none", heading |-> NoHeading]

Event(op, arg, line, ok) == [op |-> op, arg |-> arg, line |-> line, ok |-> ok]

Idx == 1..Len(trace)

\* how many times the statement at a source line has been executed
Count(line) == Cardinality({i \in Idx : trace[i].line = line})

----------------------------------------------------------------------------
(* Control flow shared by all statements of run() *)

\* A statement completed: record the call and fall through to the next line.
Proceed(op, arg, line, next) ==
    /\ trace' = Append(trace, Event(op, arg, line, TRUE))
    /\ pc' = next
    /\ exc' = exc

\* A call raised: nothing in run() catches it, so it leaves run() (line 29)
\* and reaches the exit of the with block.
Raise(op, arg, line) ==
    /\ trace' = Append(trace, Event(op, arg, line, FALSE))
    /\ pc' = "exit"
    /\ exc' = TRUE

\* page.goto(url)
Goto(line, url, next) ==
    /\ pc = line
    /\ \/ /\ server[url] # NavError
          /\ page' = [url |-> url, heading |-> server[url]]
          /\ Proceed("goto", url, line, next)
       \/ /\ server[url] = NavError
          /\ page' = page
          /\ Raise("goto", url, line)
    /\ UNCHANGED <<playwright, browser, files, stdout, outcome, server>>

\* expect(page.get_by_role("heading", name=name)).to_be_visible()
Expect(line, name, next) ==
    /\ pc = line
    /\ \/ /\ page.heading = name
          /\ Proceed("expect", name, line, next)
       \/ /\ page.heading # name
          /\ Raise("expect", name, line)
    /\ UNCHANGED <<playwright, browser, page, files, stdout, outcome, server>>

\* page.screenshot(path=path)
Screenshot(line, path, next) ==
    /\ pc = line
    /\ \/ /\ files' = files \cup {path}
          /\ Proceed("screenshot", path, line, next)
       \/ /\ files' = files
          /\ Raise("screenshot", path, line)
    /\ UNCHANGED <<playwright, browser, page, stdout, outcome, server>>

\* print(msg)
PrintMsg(line, msg, next) ==
    /\ pc = line
    /\ stdout' = Append(stdout, msg)
    /\ Proceed("print", msg, line, next)
    /\ UNCHANGED <<playwright, browser, page, files, outcome, server>>

----------------------------------------------------------------------------
(* The statements, in source order *)

\* line 28: with sync_playwright() as playwright -- enter, then call run()
EnterContext ==
    /\ pc = "L28"
    /\ playwright' = "running"
    /\ pc' = "L4"
    /\ UNCHANGED <<exc, browser, page, files, stdout, trace, outcome, server>>

\* line 4: browser = playwright.chromium.launch(headless=True)
Launch ==
    /\ pc = "L4"
    /\ \/ /\ browser' = "open"
          /\ Proceed("launch", "chromium", "L4", "L5")
       \/ /\ browser' = browser
          /\ Raise("launch", "chromium", "L4")
    /\ UNCHANGED <<playwright, page, files, stdout, outcome, server>>

\* line 5: page = browser.new_page()
NewPage ==
    /\ pc = "L5"
    /\ \/ /\ page' = [url |-> "about:blank", heading |-> NoHeading]
          /\ Proceed("new_page", "page", "L5", "L8")
       \/ /\ page' = page
          /\ Raise("new_page", "page", "L5")
    /\ UNCHANGED <<playwright, browser, files, stdout, outcome, server>>

\* mutant: the assertion waits without a timeout and never raises
ExpectLogin_blocks ==
    /\ pc = "L9"
    /\ page.heading = LoginHeading
    /\ Proceed("expect", LoginHeading, "L9", "L10")
    /\ UNCHANGED <<playwright, browser, page, files, stdout, outcome, server>>

GotoLogin       == Goto("L8", LoginURL, "L9")
ExpectLogin     == Expect("L9", LoginHeading, "L10")
ScreenshotLogin == Screenshot("L10", LoginShot, "L11")
PrintLogin      == PrintMsg("L11", LoginMsg, "L14")

\* mutant: the dashboard navigation is left out
GotoDashboard_skipped ==
    /\ pc = "L14"
    /\ pc' = "L17"
    /\ UNCHANGED <<exc, playwright, browser, page, files, stdout, trace, outcome, server>>

\* mutant: a failed dashboard assertion is swallowed and the script goes on
ExpectDashboard_swallowed ==
    /\ pc = "L17"
    /\ trace' = Append(trace, Event("expect", LoginHeading, "L17", page.heading = LoginHeading))
    /\ pc' = "L18"
    /\ UNCHANGED <<exc, playwright, browser, page, files, stdout, outcome, server>>

\* mutant: the dashboard step prints the login step's message
PrintDashboard_wrongMsg == PrintMsg("L18", LoginMsg, "L21")

GotoDashboard   == Goto("L14", DashboardURL, "L17")
ExpectDashboard == Expect("L17", LoginHeading, "L18")
PrintDashboard  == PrintMsg("L18", DashboardMsg, "L21")

\* mutant: a failed landing navigation is attempted a second time
GotoLanding_retry ==
    /\ pc = "L21"
    /\ \/ /\ server[LandingURL] # NavError
          /\ page' = [url |-> LandingURL, heading |-> server[LandingURL]]
          /\ Proceed("goto", LandingURL, "L21", "L22")
       \/ /\ server[LandingURL] = NavError
          /\ page' = page
          /\ trace' = Append(trace, Event("goto", LandingURL, "L21", FALSE))
          /\ pc' = IF Count("L21") = 0 THEN "L21" ELSE "exit"
          /\ exc' = (Count("L21") # 0)
    /\ UNCHANGED <<playwright, browser, files, stdout, outcome, server>>

\* mutant: a failed landing assertion closes the browser before re-raising
ExpectLanding_finally ==
    /\ pc = "L22"
    /\ \/ /\ page.heading = LandingHeading
          /\ browser' = browser
          /\ Proceed("expect", LandingHeading, "L22", "L23")
       \/ /\ page.heading # LandingHeading
          /\ browser' = "closed"
          /\ trace' = trace \o << Event("expect", LandingHeading, "L22", FALSE),
                                  Event("close", "browser", "L26", TRUE) >>
          /\ pc' = "exit"
          /\ exc' = TRUE
    /\ UNCHANGED <<playwright, page, files, stdout, outcome, server>>

\* mutant: the landing screenshot is saved over the login screenshot
ScreenshotLanding_wrongPath == Screenshot("L23", LoginShot, "L24")

GotoLanding       == Goto("L21", LandingURL, "L22")
ExpectLanding     == Expect("L22", LandingHeading, "L23")
ScreenshotLanding == Screenshot("L23", LandingShot, "L24")
PrintLanding      == PrintMsg("L24", LandingMsg, "L26")

\* mutant: run() returns without closing the browser
BrowserClose_missing ==
    /\ pc = "L26"
    /\ pc' = "exit"
    /\ UNCHANGED <<exc, playwright, browser, page, files, stdout, trace, outcome, server>>

\* line 26: browser.close(), then run() returns
BrowserClose ==
    /\ pc = "L26"
    /\ \/ /\ browser' = "closed"
          /\ Proceed("close", "browser", "L26", "exit")
       \/ /\ browser' = browser
          /\ Raise("close", "browser", "L26")
    /\ UNCHANGED <<playwright, page, files, stdout, outcome, server>>

\* mutant: the exception that escaped run() is suppressed
ExitContext_suppress ==
    /\ pc = "exit"
    /\ playwright' = "stopped"
    /\ browser' = IF browser = "open" THEN "killed" ELSE browser
    /\ outcome' = "ok"
    /\ pc' = "done"
    /\ UNCHANGED <<exc, page, files, stdout, trace, server>>

\* mutant: a failed run removes the screenshots it has written
ExitContext_cleanup ==
    /\ pc = "exit"
    /\ playwright' = "stopped"
    /\ browser' = IF browser = "open" THEN "killed" ELSE browser
    /\ outcome' = IF exc THEN "failed" ELSE "ok"
    /\ files' = IF exc THEN {} ELSE files
    /\ pc' = "done"
    /\ UNCHANGED <<exc, page, stdout, trace, server>>

\* lines 28-29: the with block exits.  The driver is stopped, which takes a
\* still-open browser down with it; an exception that escaped run() is not
\* suppressed, so the process ends failed.
ExitContext ==
    /\ pc = "exit"
    /\ playwright' = "stopped"
    /\ browser' = IF browser = "open" THEN "killed" ELSE browser
    /\ outcome' = IF exc THEN "failed" ELSE "ok"
    /\ pc' = "done"
    /\ UNCHANGED <<exc, page, files, stdout, trace, server>>

----------------------------------------------------------------------------

Init ==
    /\ pc = "L28"
    /\ exc = FALSE
    /\ playwright = "notstarted"
    /\ browser = "none"
    /\ page = NoPage
    /\ files = {}
    /\ stdout = <<>>
    /\ trace = <<>>
    /\ outcome = "running"
    /\ server \in [Routes -> Responses]

Next ==
    \/ EnterContext
    \/ Launch
    \/ NewPage
    \/ GotoLogin
    \/ ExpectLogin
    \/ ScreenshotLogin
    \/ PrintLogin
    \/ GotoDashboard
    \/ ExpectDashboard
    \/ PrintDashboard
    \/ GotoLanding
    \/ ExpectLanding
    \/ ScreenshotLanding
    \/ PrintLanding
    \/ BrowserClose
    \/ ExitContext

Spec == Init /\ [][Next]_vars

\* The script is the only thread and every library call returns or raises,
\* so an enabled statement is eventually executed.
FairSpec == Spec /\ WF_vars(Next)

TypeOK ==
    /\ pc \in {"L28", "L4", "L5", "L8", "L9", "L10", "L11", "L14", "L17", "L18",
               "L21", "L22", "L23", "L24", "L26", "exit", "done"}
    /\ exc \in BOOLEAN
    /\ playwright \in {"notstarted", "running", "stopped"}
    /\ browser \in {"none", "open", "closed", "killed"}
    /\ files \subseteq {LoginShot, LandingShot}
    /\ outcome \in {"running", "ok", "failed"}
    /\ server \in [Routes -> Responses]
----------------------------------------------------------------------------
(* Vocabulary of the properties *)

StepLines(s) ==
    CASE s = 1 -> {"L8", "L9", "L10", "L11"}
      [] s = 2 -> {"L14", "L17", "L18"}
      [] s = 3 -> {"L21", "L22", "L23", "L24"}

Steps == {1, 2, 3}

\* the step a source line belongs to; 0 for the lines outside the three steps
StepOf(line) == IF \E s \in Steps : line \in StepLines(s)
                THEN CHOOSE s \in Steps : line \in StepLines(s)
                ELSE 0

\* the URL a step's assertion is about
StepURL(s) == CASE s = 1 -> LoginURL [] s = 2 -> DashboardURL [] s = 3 -> LandingURL

HasOk(line) == \E i \in Idx : trace[i].line = line /\ trace[i].ok

FailedAt(line) == \E i \in Idx : trace[i].line = line /\ ~trace[i].ok

SomeFailure == \E i \in Idx : ~trace[i].ok

NavOrAssertFailure == \E i \in Idx : ~trace[i].ok /\ trace[i].op \in {"goto", "expect"}

StepCompleted(s) == \A l \in StepLines(s) : HasOk(l)

PageOps == {"goto", "expect", "screenshot"}

IsPrefix(a, b) == Len(a) <= Len(b) /\ SubSeq(b, 1, Len(a)) = a

AllMessages == <<LoginMsg, DashboardMsg, LandingMsg>>

\* terminal state of a run in which everything succeeded
Succeeded ==
    /\ outcome = "ok"
    /\ \A s \in Steps : StepCompleted(s)
    /\ browser = "closed"
    /\ ~SomeFailure

\* terminal state of a run that stopped at its first failing call
FailedAtFirstFailure ==
    /\ outcome = "failed"
    /\ trace # <<>>
    /\ ~trace[Len(trace)].ok
    /\ \A i \in 1..(Len(trace) - 1) : trace[i].ok

----------------------------------------------------------------------------
(* C1: once a navigation or a heading assertion (or any other call) of the  *)
(* procedure has failed, the procedure performs nothing more: the failed    *)
(* call is the last call run() ever makes, the exception is propagating,    *)
(* and control is at or past the exit of the with block.                    *)
AbortsAtFirstFailure ==
    \A i \in Idx :
        ~trace[i].ok => /\ i = Len(trace)
                        /\ exc
                        /\ pc \in {"exit", "done"}

AbortsAtFirstFailureWitness ==
    /\ pc = "done"
    /\ FailedAt("L9")
    /\ Len(trace) = 4
    /\ stdout = <<>>
    /\ files = {}

(* C2: a finished run in which any call failed ends with the failed         *)
(* outcome, and a run ends with the successful outcome only if all three    *)
(* navigations and all three heading assertions succeeded.                  *)
FailurePropagates ==
    /\ (pc = "done" /\ SomeFailure) => outcome = "failed"
    /\ outcome = "ok" =>
          /\ pc = "done"
          /\ \A l \in {"L8", "L9", "L14", "L17", "L21", "L22"} : HasOk(l)
          /\ ~SomeFailure

FailurePropagatesWitness ==
    /\ pc = "done"
    /\ FailedAt("L14")
    /\ outcome = "failed"

(* C3: every heading assertion directly follows the successful navigation   *)
(* to its own step's URL, the steps occur in the order login, dashboard,    *)
(* landing, and every page operation comes after the browser was launched   *)
(* and the page was opened.                                                 *)
NavigationBeforeAssertion ==
    /\ \A i \in Idx :
          trace[i].op = "expect" =>
             /\ i > 1
             /\ trace[i-1].op = "goto"
             /\ trace[i-1].ok
             /\ trace[i-1].arg = StepURL(StepOf(trace[i].line))
    /\ \A i, j \in Idx :
          (i < j /\ StepOf(trace[i].line) # 0 /\ StepOf(trace[j].line) # 0)
             => StepOf(trace[i].line) <= StepOf(trace[j].line)
    /\ \A i \in Idx :
          trace[i].op \in PageOps =>
             /\ i > 2
             /\ trace[1] = Event("launch", "chromium", "L4", TRUE)
             /\ trace[2] = Event("new_page", "page", "L5", TRUE)

NavigationBeforeAssertionWitness ==
    /\ pc = "L23"
    /\ HasOk("L9") /\ HasOk("L17") /\ HasOk("L22")

(* C4: in a successful run the browser is launched once and closed once,    *)
(* the close is the last call of the procedure and directly follows the     *)
(* landing step's message; no page operation ever follows a close.          *)
BrowserClosedOnceAtEnd ==
    /\ outcome = "ok" =>
          /\ Count("L4") = 1
          /\ Cardinality({i \in Idx : trace[i].op = "close"}) = 1
          /\ trace[Len(trace)] = Event("close", "browser", "L26", TRUE)
          /\ trace[Len(trace) - 1] = Event("print", LandingMsg, "L24", TRUE)
          /\ browser = "closed"
    /\ \A i, j \in Idx :
          (i < j /\ trace[i].op = "close") => trace[j].op \notin PageOps

BrowserClosedOnceAtEndWitness ==
    /\ outcome = "ok"
    /\ browser = "closed"
    /\ playwright = "stopped"

(* C5: a screenshot is taken only directly after its step's assertion has   *)
(* passed: login-page.png after the login assertion, dashboard-page.png     *)
(* after the landing assertion, none in the dashboard step; the files on    *)
(* disk are exactly the screenshots taken, and a successful run takes       *)
(* exactly these two, each once.                                            *)
ScreenshotsAfterAssertions ==
    /\ \A i \in Idx :
          trace[i].op = "screenshot" =>
             /\ i > 1
             /\ trace[i-1].op = "expect"
             /\ trace[i-1].ok
             /\ \/ trace[i].arg = LoginShot /\ trace[i-1].line = "L9"
                \/ trace[i].arg = LandingShot /\ trace[i-1].line = "L22"
             /\ StepOf(trace[i].line) # 2
    /\ files = {trace[i].arg : i \in {k \in Idx : trace[k].op = "screenshot" /\ trace[k].ok}}
    /\ outcome = "ok" =>
          /\ files = {LoginShot, LandingShot}
          /\ \A f \in {LoginShot, LandingShot} :
                Cardinality({i \in Idx : trace[i].op = "screenshot" /\ trace[i].arg = f}) = 1
          /\ Cardinality({i \in Idx : trace[i].op = "screenshot"}) = 2

ScreenshotsAfterAssertionsWitness ==
    /\ pc = "done"
    /\ ~exc
    /\ files = {LoginShot, LandingShot}
    /\ Cardinality({i \in Idx : trace[i].op = "screenshot"}) = 2

(* C6: no retry: each of the three URLs is navigated to at most once and    *)
(* each heading assertion is evaluated at most once, in every run.          *)
NoRetry ==
    /\ \A u \in Routes :
          Cardinality({i \in Idx : trace[i].op = "goto" /\ trace[i].arg = u}) <= 1
    /\ \A l \in {"L9", "L17", "L22"} : Count(l) <= 1
    /\ Cardinality({i \in Idx : trace[i].op = "expect"}) <= 3

NoRetryWitness ==
    /\ pc = "done"
    /\ FailedAt("L21")
    /\ Count("L21") = 1

(* C7: when a navigation or an assertion has failed, run() never executes   *)
(* its browser-close step; the browser is released only by the teardown of  *)
(* the enclosing with block.                                                *)
NoCleanupOnFailure ==
    NavOrAssertFailure =>
        /\ \A i \in Idx : trace[i].op # "close"
        /\ browser # "closed"
        /\ pc = "exit" => browser = "open"
        /\ pc = "done" => (playwright = "stopped" /\ browser = "killed")

NoCleanupOnFailureWitness ==
    /\ pc = "done"
    /\ FailedAt("L17")
    /\ browser = "killed"

(* C8: a step's message is emitted only directly after that step's          *)
(* assertion passed (and, for login and landing, its screenshot was saved); *)
(* at every point the number of messages equals the number of completed     *)
(* steps, messages come in the order login, dashboard, landing, and a       *)
(* successful run has emitted exactly the three.                            *)
MessagesMatchCompletedSteps ==
    /\ Len(stdout) = Cardinality({s \in Steps : StepCompleted(s)})
    /\ IsPrefix(stdout, AllMessages)
    /\ \A i \in Idx :
          trace[i].op = "print" =>
             /\ i > 2
             /\ trace[i-1].ok
             /\ \/ /\ trace[i].line = "L11"
                   /\ trace[i-1].line = "L10"
                   /\ trace[i-2].line = "L9" /\ trace[i-2].ok
                \/ /\ trace[i].line = "L18"
                   /\ trace[i-1].line = "L17"
                \/ /\ trace[i].line = "L24"
                   /\ trace[i-1].line = "L23"
                   /\ trace[i-2].line = "L22" /\ trace[i-2].ok
    /\ outcome = "ok" => stdout = AllMessages

MessagesMatchCompletedStepsWitness ==
    /\ outcome = "ok"
    /\ stdout = AllMessages

(* C9: nothing is rolled back: no step of the run, the failing one and the  *)
(* teardown included, removes a screenshot file or a message; a run whose   *)
(* landing assertion failed ends with login-page.png written, two messages  *)
(* emitted and dashboard-page.png unwritten.                                *)
NoRollback ==
    /\ [][files \subseteq files' /\ IsPrefix(stdout, stdout')]_vars
    /\ [](FailedAt("L22") =>
             /\ files = {LoginShot}
             /\ stdout = <<LoginMsg, DashboardMsg>>)

NoRollbackWitness ==
    /\ pc = "done"
    /\ FailedAt("L22")
    /\ files = {LoginShot}
    /\ Len(stdout) = 2

(* C10, as stated: a finished run either succeeded with all three steps     *)
(* completed and the browser closed, or failed at its first failing         *)
(* navigation or assertion.                                                 *)
TerminalIsSuccessOrNavAssertFailure ==
    pc = "done" => \/ Succeeded
                   \/ FailedAtFirstFailure /\ NavOrAssertFailure

(* C10, amended: every run eventually finishes, and a finished run is in    *)
(* exactly one of two terminal states: succeeded with all three steps       *)
(* completed and the browser closed, or failed at its first failing         *)
(* browser-library call (launch, new_page, navigation, assertion,           *)
(* screenshot or close); once finished nothing changes any more.            *)
Terminates ==
    /\ <>(pc = "done")
    /\ [](pc = "done" => (Succeeded /\ ~FailedAtFirstFailure)
                         \/ (FailedAtFirstFailure /\ ~Succeeded))
    /\ [][pc = "done" => FALSE]_vars

TerminatesWitness ==
    /\ pc = "done"
    /\ outcome = "failed"
    /\ FailedAt("L23")
    /\ files = {LoginShot}
====
